---------------------------- MODULE Spec2Model ----------------------------
(***************************************************************************)
(* refacta: structural rewrites of conditionals in a TypeScript buffer.    *)
(*                                                                         *)
(* A request is (document, cursor).  The two code-action providers         *)
(* (IfFlipper, TernaryConverter) parse the document, resolve the cursor to *)
(* the deepest node, walk the parent links to the enclosing construct and  *)
(* build the replacement nodes.  Syntax nodes are records tagged by kind;  *)
(* a node of the parsed tree is addressed by its path from the SourceFile  *)
(* (the parent link of a path is the path without its last step).          *)
(***************************************************************************)
EXTENDS Integers, Sequences, FiniteSets, TLC

VARIABLES
    source,     \* the parsed SourceFile of the active document
    cursor,     \* the request's position, [line, character]
    result,     \* what the last provider call returned (or that it threw)
    inverted    \* successive results of invertExpression on one expression

vars == <<source, cursor, result, inverted>>

---------------------------------------------------------------------------
(* Bounds of the model *)

\* longest then-/else-block drawn for the if/else documents
MaxLen == 2
\* most conditional expressions in one drawn expression
MaxConds == 2
\* most "!" stacked on a drawn expression
MaxNots == 3
\* how often invertExpression is applied in a row
MaxInvert == 3

---------------------------------------------------------------------------
(* Syntax nodes *)

Undefined == [kind |-> "undefined"]

Identifier(text) == [kind |-> "Identifier", text |-> text]

Punctuation == [kind |-> "Punctuation"]
QuestionToken == [kind |-> "QuestionToken"]
ColonToken == [kind |-> "ColonToken"]
EndOfFileToken == [kind |-> "EndOfFileToken"]

createPrefixUnaryExpression(operator, operand) ==
    [kind |-> "PrefixUnaryExpression", operator |-> operator, operand |-> operand]

createParenthesizedExpression(expr) ==
    [kind |-> "ParenthesizedExpression", expression |-> expr]

createConditionalExpression(condition, whenTrue, whenFalse) ==
    [kind |-> "ConditionalExpression", condition |-> condition,
     whenTrue |-> whenTrue, whenFalse |-> whenFalse]

createExpressionStatement(expr) ==
    [kind |-> "ExpressionStatement", expression |-> expr]

\* ts.factory.createReturnStatement(expression?)
createReturnStatement(expr) ==
    [kind |-> "ReturnStatement", expression |-> expr]

\* ts.factory.createBlock(statements)
createBlock(statements) ==
    [kind |-> "Block", statements |-> statements]

\* ts.factory.createIfStatement(expression, thenStatement, elseStatement?)
createIfStatement(expr, thenStatement, elseStatement) ==
    [kind |-> "IfStatement", expression |-> expr,
     thenStatement |-> thenStatement, elseStatement |-> elseStatement]

createFunctionDeclaration(name, body) ==
    [kind |-> "FunctionDeclaration", name |-> name, body |-> body]

\* trivia: the width of the whitespace in front of every token of the text
createSourceFile(statements, trivia) ==
    [kind |-> "SourceFile", statements |-> statements, trivia |-> trivia]

IsUndefined(n) == n.kind = "undefined"

ts_isIfStatement(n) == n.kind = "IfStatement"
ts_isReturnStatement(n) == n.kind = "ReturnStatement"
ts_isConditionalExpression(n) == n.kind = "ConditionalExpression"
ts_isSourceFile(n) == n.kind = "SourceFile"

\* node.kind >= ts.SyntaxKind.FirstNode: identifiers and tokens are below it
IsFirstNodeOrLater(n) ==
    n.kind \notin {"Identifier", "Punctuation", "QuestionToken",
                   "ColonToken", "EndOfFileToken"}

---------------------------------------------------------------------------
(* The parse: the tokens and children of a node, in text order.            *)
(* Punctuation items are the node's own keywords and brackets; every other *)
(* item is a child that ts.forEachChild visits.                            *)

Template(n) ==
    CASE n.kind = "SourceFile" ->
            n.statements \o <<EndOfFileToken>>
      [] n.kind = "FunctionDeclaration" ->
            <<Punctuation, n.name, Punctuation, Punctuation, n.body>>
      [] n.kind = "Block" ->
            <<Punctuation>> \o n.statements \o <<Punctuation>>
      [] n.kind = "IfStatement" ->
            <<Punctuation, Punctuation, n.expression, Punctuation, n.thenStatement>>
            \o (IF IsUndefined(n.elseStatement) THEN <<>>
                ELSE <<Punctuation, n.elseStatement>>)
      [] n.kind = "ExpressionStatement" ->
            <<n.expression, Punctuation>>
      [] n.kind = "ReturnStatement" ->
            <<Punctuation>>
            \o (IF IsUndefined(n.expression) THEN <<>> ELSE <<n.expression>>)
            \o <<Punctuation>>
      [] n.kind = "ConditionalExpression" ->
            <<n.condition, QuestionToken, n.whenTrue, ColonToken, n.whenFalse>>
      [] n.kind = "PrefixUnaryExpression" ->
            <<Punctuation, n.operand>>
      [] n.kind = "ParenthesizedExpression" ->
            <<Punctuation, n.expression, Punctuation>>
      [] OTHER -> <<>>

RECURSIVE Width(_, _)
RECURSIVE WidthOfItems(_, _)

\* full width of a node: its tokens, each with its leading trivia
Width(n, trivia) ==
    IF n.kind = "EndOfFileToken" THEN trivia
    ELSE IF ~IsFirstNodeOrLater(n) THEN trivia + 1
    ELSE WidthOfItems(Template(n), trivia)

WidthOfItems(items, trivia) ==
    IF Len(items) = 0 THEN 0
    ELSE Width(Head(items), trivia) + WidthOfItems(Tail(items), trivia)

\* offset of the i-th item of n from n.pos
ItemOffset(n, i, trivia) == WidthOfItems(SubSeq(Template(n), 1, i - 1), trivia)

RECURSIVE NodeAt(_, _)
NodeAt(root, path) ==
    IF Len(path) = 0 THEN root
    ELSE NodeAt(Template(root)[Head(path)], Tail(path))

RECURSIVE PosFrom(_, _, _)
PosFrom(root, path, trivia) ==
    IF Len(path) = 0 THEN 0
    ELSE ItemOffset(root, Head(path), trivia)
         + PosFrom(Template(root)[Head(path)], Tail(path), trivia)

\* node.pos: where the trivia in front of the node's first token starts
NodePos(src, path) == PosFrom(src, path, src.trivia)
\* node.end: the end of the node's last token
NodeEnd(src, path) == NodePos(src, path) + Width(NodeAt(src, path), src.trivia)
\* node.parent
Parent(path) == SubSeq(path, 1, Len(path) - 1)

\* document.getText().length
TextLength(src) == Width(src, src.trivia)

\* Line starts of the text: with trivia, the whitespace in front of every
\* top-level statement is one line break.
LineStarts(src) ==
    <<0>> \o (IF src.trivia = 0 THEN <<>>
              ELSE [i \in 1..Len(src.statements) |-> NodePos(src, <<i>>) + 1])

\* ts.getLineAndCharacterOfPosition(source, position)
getLineAndCharacterOfPosition(src, position) ==
    LET starts == LineStarts(src)
        line == CHOOSE l \in 1..Len(starts) :
                    /\ starts[l] <= position
                    /\ \A m \in 1..Len(starts) : starts[m] <= position => m <= l
    IN [line |-> line - 1, character |-> position - starts[line]]

\* source.getPositionOfLineAndCharacter(line, character)
getSourcePositionFromVscode(position, src) ==
    LineStarts(src)[position.line + 1] + position.character

---------------------------------------------------------------------------
(* parser.ts *)

\* ts.forEachChild(node, cb) with the callback of getAstNodeAtPosition: the
\* children are visited in order, and the first with child.pos <= pos &&
\* child.end > pos is the result (index 0: cb returned undefined for all)
\* forEachChild with a callback that takes a child ending at pos as well
RECURSIVE ForEachChild_EndInclusive(_, _, _, _, _)
ForEachChild_EndInclusive(items, i, childPos, pos, trivia) ==
    IF i > Len(items) THEN [index |-> 0, pos |-> 0]
    ELSE LET childEnd == childPos + Width(items[i], trivia)
         IN IF items[i].kind # "Punctuation" /\ childPos <= pos /\ childEnd >= pos
            THEN [index |-> i, pos |-> childPos]
            ELSE ForEachChild_EndInclusive(items, i + 1, childEnd, pos, trivia)

RECURSIVE ForEachChild(_, _, _, _, _)
ForEachChild(items, i, childPos, pos, trivia) ==
    IF i > Len(items) THEN [index |-> 0, pos |-> 0]
    ELSE LET childEnd == childPos + Width(items[i], trivia)
         IN IF items[i].kind # "Punctuation" /\ childPos <= pos /\ childEnd > pos
            THEN [index |-> i, pos |-> childPos]
            ELSE ForEachChild(items, i + 1, childEnd, pos, trivia)

ValidChild(n, nodePos, pos, trivia) == ForEachChild(Template(n), 1, nodePos, pos, trivia)

RECURSIVE Descend(_, _, _, _, _)
Descend(n, path, nodePos, pos, trivia) ==
    IF ~IsFirstNodeOrLater(n) THEN path
    ELSE LET validChildren == ValidChild(n, nodePos, pos, trivia)
         IN IF validChildren.index = 0 THEN path
            ELSE Descend(Template(n)[validChildren.index],
                         Append(path, validChildren.index),
                         validChildren.pos, pos, trivia)

\* the path of the deepest node at pos
getAstNodeAtPosition(src, pos) == Descend(src, <<>>, 0, pos, src.trivia)

getActiveActionContext(src, position) ==
    LET pos == getSourcePositionFromVscode(position, src)
    IN [source |-> src, cursor |-> pos, node |-> getAstNodeAtPosition(src, pos)]

Found(path) == [status |-> "found", path |-> path]
NotFound == [status |-> "undefined", path |-> <<>>]
Thrown == [status |-> "throw", path |-> <<>>]

\* getContainingStatement(node, isValid), isValid being the type guard of kind.
\* When node is the SourceFile, node.parent is undefined and
\* ts.isSourceFile(node.parent) reads the kind of undefined: a TypeError.
RECURSIVE getContainingStatement(_, _, _)
getContainingStatement(src, path, kind) ==
    IF NodeAt(src, path).kind = kind THEN Found(path)
    ELSE IF Len(path) = 0 THEN Thrown
    ELSE IF ts_isSourceFile(NodeAt(src, Parent(path))) THEN NotFound
    ELSE getContainingStatement(src, Parent(path), kind)

\* getVscodeRangeOfNode(node, source)
getVscodeRangeOfNode(src, path) ==
    [start |-> getLineAndCharacterOfPosition(src, NodePos(src, path)),
     end |-> getLineAndCharacterOfPosition(src, NodeEnd(src, path))]

\* printer.printNode(EmitHint.Unspecified, given, source): the tokens printed
RECURSIVE printNode(_)
RECURSIVE printNodes(_)
printNode(n) ==
    CASE n.kind = "Identifier" -> <<n.text>>
      [] n.kind = "PrefixUnaryExpression" -> <<n.operator>> \o printNode(n.operand)
      [] n.kind = "ParenthesizedExpression" ->
            <<"(">> \o printNode(n.expression) \o <<")">>
      [] n.kind = "ConditionalExpression" ->
            printNode(n.condition) \o <<"?">> \o printNode(n.whenTrue)
            \o <<":">> \o printNode(n.whenFalse)
      [] n.kind = "ExpressionStatement" -> printNode(n.expression) \o <<";">>
      [] n.kind = "ReturnStatement" ->
            <<"return">>
            \o (IF IsUndefined(n.expression) THEN <<>> ELSE printNode(n.expression))
            \o <<";">>
      [] n.kind = "Block" -> <<"{">> \o printNodes(n.statements) \o <<"}">>
      [] n.kind = "IfStatement" ->
            <<"if", "(">> \o printNode(n.expression) \o <<")">>
            \o printNode(n.thenStatement)
            \o (IF IsUndefined(n.elseStatement) THEN <<>>
                ELSE <<"else">> \o printNode(n.elseStatement))
      [] n.kind = "FunctionDeclaration" ->
            <<"function">> \o printNode(n.name) \o <<"(", ")">> \o printNode(n.body)
      [] OTHER -> <<>>

printNodes(nodes) ==
    IF Len(nodes) = 0 THEN <<>>
    ELSE printNode(Head(nodes)) \o printNodes(Tail(nodes))

\* getNodeArrayFullText(given, source): the printed nodes joined by "\n"
RECURSIVE getNodeArrayFullText(_)
getNodeArrayFullText(given) ==
    IF Len(given) = 0 THEN <<>>
    ELSE IF Len(given) = 1 THEN printNode(Head(given))
    ELSE printNode(Head(given)) \o <<"\n">> \o getNodeArrayFullText(Tail(given))

---------------------------------------------------------------------------
(* ifFlipper.ts *)

\* invertExpression without the unwrapping of an existing "!"
invertExpression_AlwaysWraps(expr) == createPrefixUnaryExpression("!", expr)

\* invertExpression(expression)
invertExpression(expr) ==
    IF expr.kind = "PrefixUnaryExpression" /\ expr.operator = "!"
    THEN expr.operand
    ELSE createPrefixUnaryExpression("!", expr)

\* getBlockStatements that adds the return without looking for one
getBlockStatements_AlwaysAddsReturn(block, addMissingReturn) ==
    IF block.kind # "Block" THEN [threw |-> TRUE, statements |-> <<>>]
    ELSE IF addMissingReturn
    THEN [threw |-> FALSE,
          statements |-> block.statements \o <<createReturnStatement(Undefined)>>]
    ELSE [threw |-> FALSE, statements |-> block.statements]

\* getBlockStatements(block, addMissingReturn).  The callers cast a branch to
\* ts.Block; a branch that is no block has no statements array, and both
\* block.statements.some(...) and [...block.statements] throw a TypeError.
getBlockStatements(block, addMissingReturn) ==
    IF block.kind # "Block" THEN [threw |-> TRUE, statements |-> <<>>]
    ELSE IF addMissingReturn
            /\ ~\E i \in 1..Len(block.statements) :
                    ts_isReturnStatement(block.statements[i])
    THEN [threw |-> FALSE,
          statements |-> block.statements \o <<createReturnStatement(Undefined)>>]
    ELSE [threw |-> FALSE, statements |-> block.statements]

\* a vscode.CodeAction whose edit replaces range by the printed nodes
CodeAction(title, range, nodes, newText) ==
    [threw |-> FALSE, title |-> title, range |-> range,
     nodes |-> nodes, newText |-> newText]

ThrownAction ==
    [threw |-> TRUE, title |-> "", range |-> Undefined, nodes |-> <<>>, newText |-> <<>>]

\* IfFlipper.createSimplifyAction(ifStatement, document, source)
createSimplifyAction(src, path) ==
    LET ifStatement == NodeAt(src, path)
        thenContents == getBlockStatements(ifStatement.thenStatement, TRUE)
        elseContents == getBlockStatements(ifStatement.elseStatement, FALSE)
        newIfStatement == createIfStatement(ifStatement.expression,
                                            createBlock(thenContents.statements),
                                            Undefined)
        nodes == <<newIfStatement>> \o elseContents.statements
    IN IF thenContents.threw \/ elseContents.threw THEN ThrownAction
       ELSE CodeAction("Simplify if/else", getVscodeRangeOfNode(src, path),
                       nodes, getNodeArrayFullText(nodes))

\* createInvertAndSimplifyAction that keeps the condition as it is
createInvertAndSimplifyAction_KeepsCondition(src, path) ==
    LET ifStatement == NodeAt(src, path)
        thenContents == getBlockStatements(ifStatement.thenStatement, FALSE)
        elseContents == getBlockStatements(ifStatement.elseStatement, TRUE)
        newIfStatement == createIfStatement(ifStatement.expression,
                                            createBlock(elseContents.statements),
                                            Undefined)
        nodes == <<newIfStatement>> \o thenContents.statements
    IN IF thenContents.threw \/ elseContents.threw THEN ThrownAction
       ELSE CodeAction("Invert and simplify if/else", getVscodeRangeOfNode(src, path),
                       nodes, getNodeArrayFullText(nodes))

\* IfFlipper.createInvertAndSimplifyAction(ifStatement, document, source)
createInvertAndSimplifyAction(src, path) ==
    LET ifStatement == NodeAt(src, path)
        thenContents == getBlockStatements(ifStatement.thenStatement, FALSE)
        elseContents == getBlockStatements(ifStatement.elseStatement, TRUE)
        newIfStatement == createIfStatement(invertExpression(ifStatement.expression),
                                            createBlock(elseContents.statements),
                                            Undefined)
        nodes == <<newIfStatement>> \o thenContents.statements
    IN IF thenContents.threw \/ elseContents.threw THEN ThrownAction
       ELSE CodeAction("Invert and simplify if/else", getVscodeRangeOfNode(src, path),
                       nodes, getNodeArrayFullText(nodes))

\* what a provider call came to: "undefined" (a bare return: no actions),
\* "actions", or "throw" (an uncaught TypeError)
Returned(handler, kind, actions) ==
    [handler |-> handler, kind |-> kind, actions |-> actions]

\* IfFlipper.provideCodeActions(document, range)
IfFlipper_provideCodeActions(src, position) ==
    LET node == getActiveActionContext(src, position).node
        containingIf == getContainingStatement(src, node, "IfStatement")
    IN IF containingIf.status = "throw"
       THEN Returned("IfFlipper", "throw", <<>>)
       ELSE IF \/ containingIf.status = "undefined"
               \/ IsUndefined(NodeAt(src, containingIf.path).elseStatement)
       THEN Returned("IfFlipper", "undefined", <<>>)
       ELSE LET simplify == createSimplifyAction(src, containingIf.path)
                invertAndSimplify ==
                    createInvertAndSimplifyAction(src, containingIf.path)
            IN IF simplify.threw \/ invertAndSimplify.threw
               THEN Returned("IfFlipper", "throw", <<>>)
               ELSE Returned("IfFlipper", "actions", <<simplify, invertAndSimplify>>)

---------------------------------------------------------------------------
(* ternaryConverter.ts *)

\* recurseConditionalIntoIfElse that does not expand the when-false branch
RECURSIVE recurseConditionalIntoIfElse_StopsAtWhenFalse(_)
recurseConditionalIntoIfElse_StopsAtWhenFalse(expr) ==
    IF ~ts_isConditionalExpression(expr)
    THEN createReturnStatement(expr)
    ELSE createIfStatement(
            expr.condition,
            createBlock(<<recurseConditionalIntoIfElse_StopsAtWhenFalse(expr.whenTrue)>>),
            createBlock(<<createReturnStatement(expr.whenFalse)>>))

\* recurseConditionalIntoIfElse with the two branches exchanged
RECURSIVE recurseConditionalIntoIfElse_SwapsBranches(_)
recurseConditionalIntoIfElse_SwapsBranches(expr) ==
    IF ~ts_isConditionalExpression(expr)
    THEN createReturnStatement(expr)
    ELSE createIfStatement(
            expr.condition,
            createBlock(<<recurseConditionalIntoIfElse_SwapsBranches(expr.whenFalse)>>),
            createBlock(<<recurseConditionalIntoIfElse_SwapsBranches(expr.whenTrue)>>))

\* recurseConditionalIntoIfElse(expression)
RECURSIVE recurseConditionalIntoIfElse(_)
recurseConditionalIntoIfElse(expr) ==
    IF ~ts_isConditionalExpression(expr)
    THEN createReturnStatement(expr)
    ELSE createIfStatement(
            expr.condition,
            createBlock(<<recurseConditionalIntoIfElse(expr.whenTrue)>>),
            createBlock(<<recurseConditionalIntoIfElse(expr.whenFalse)>>))

\* TernaryConverter.provideCodeActions(document, range)
TernaryConverter_provideCodeActions(src, position) ==
    LET node == getActiveActionContext(src, position).node
        old == getContainingStatement(src, node, "ConditionalExpression")
    IN IF old.status = "throw"
       THEN Returned("TernaryConverter", "throw", <<>>)
       ELSE IF old.status = "undefined"
       THEN Returned("TernaryConverter", "undefined", <<>>)
       ELSE LET newStatement == recurseConditionalIntoIfElse(NodeAt(src, old.path))
            IN Returned("TernaryConverter", "actions",
                        <<CodeAction("Convert ternary into if/else",
                                     getVscodeRangeOfNode(src, old.path),
                                     <<newStatement>>, printNode(newStatement))>>)

---------------------------------------------------------------------------
(* extension.ts: the refacta.isIfElse command *)

\* node.getChildren(): every child of the node, its tokens included
getChildren(n) == Template(n)

ts_isBlock(n) == n.kind = "Block"

\* isIfElseStatement that is content with one block among the children
isIfElseStatement_OneBlockIsEnough(n) ==
    IF ~ts_isIfStatement(n) THEN FALSE
    ELSE Len(SelectSeq(getChildren(n), ts_isBlock)) > 0

\* isIfElseStatement(node)
isIfElseStatement(n) ==
    IF ~ts_isIfStatement(n) THEN FALSE
    ELSE Len(SelectSeq(getChildren(n), ts_isBlock)) > 1

\* getActiveNode(), the active editor showing src with its cursor at position
getActiveNode(src, position) ==
    getAstNodeAtPosition(src, getSourcePositionFromVscode(position, src))

\* getContainingIfStatement(node): the loop of getContainingStatement with
\* ts.isIfStatement
getContainingIfStatement(src, path) == getContainingStatement(src, path, "IfStatement")

\* the command's callback: the message shown ("yes", "no"), "undefined" when
\* it returns without one, "throw" when it fails
isThisAnIfElse(src, position) ==
    LET node == getActiveNode(src, position)
        containingIf == getContainingIfStatement(src, node)
    IN IF containingIf.status = "throw" THEN Returned("isIfElse", "throw", <<>>)
       ELSE IF containingIf.status = "undefined"
       THEN Returned("isIfElse", "undefined", <<>>)
       ELSE IF isIfElseStatement(NodeAt(src, containingIf.path))
       THEN Returned("isIfElse", "yes", <<>>)
       ELSE Returned("isIfElse", "no", <<>>)

---------------------------------------------------------------------------
(* Documents and requests *)

RECURSIVE SeqsUpTo(_, _)
\* the sequences over S of length at most n
SeqsUpTo(S, n) ==
    IF n = 0 THEN {<<>>}
    ELSE LET shorter == SeqsUpTo(S, n - 1)
         IN shorter \cup {Append(s, x) : s \in shorter, x \in S}

Call(name) == createExpressionStatement(Identifier(name))
ReturnValue == createReturnStatement(Identifier("r"))
\* a statement that holds a return, but is none: if (b) { return r; }
GuardedReturn ==
    createIfStatement(Identifier("b"), createBlock(<<ReturnValue>>), Undefined)

Not(expr) == createPrefixUnaryExpression("!", expr)

ThenAtoms == {Call("x"), ReturnValue, GuardedReturn}
ElseAtoms == {Call("y"), ReturnValue, GuardedReturn}
Conditions == {Identifier("a"), Not(Identifier("a"))}
\* what stands before and after the if/else in the function body
Surroundings ==
    { [prefix |-> <<>>, suffix |-> <<>>],
      [prefix |-> <<>>, suffix |-> <<Call("z")>>],
      [prefix |-> <<Call("w")>>, suffix |-> <<Call("z")>>] }

\* function f() { prefix  if (c) {t} else {e}  suffix }
IfElseDocument(prefix, c, t, e, suffix) ==
    createSourceFile(
        <<createFunctionDeclaration(
            Identifier("f"),
            createBlock(prefix
                        \o <<createIfStatement(c, createBlock(t), createBlock(e))>>
                        \o suffix))>>,
        1)

\* the path of that if-statement
IfElsePath(prefix) == <<1, 5, Len(prefix) + 2>>

Leaves == {Identifier("x"), Identifier("y")}
ConditionIds == {Identifier("a"), Not(Identifier("b"))}

RECURSIVE ExprsWith(_)
RECURSIVE ConditionalsWith(_)
\* the conditional expressions made of exactly n conditional expressions,
\* a nested one standing bare or in parentheses
ConditionalsWith(n) ==
    UNION {{createConditionalExpression(c, t, f) :
                c \in ConditionIds, t \in ExprsWith(i), f \in ExprsWith(n - 1 - i)} :
           i \in 0..(n - 1)}

ExprsWith(n) ==
    IF n = 0 THEN Leaves
    ELSE ConditionalsWith(n)
         \cup {createParenthesizedExpression(e) : e \in ConditionalsWith(n)}

\* e;
TernaryDocument(e) == createSourceFile(<<createExpressionStatement(e)>>, 1)

IfA(thenStatement, elseStatement) ==
    createIfStatement(Identifier("a"), thenStatement, elseStatement)

\* documents on which every cursor offset is tried
SmallStatementLists ==
    { <<>>,
      <<Call("x")>>,
      \* if (a) { x; } else { y; }  z;
      <<IfA(createBlock(<<Call("x")>>), createBlock(<<Call("y")>>)), Call("z")>>,
      \* if (a) { x; }
      <<IfA(createBlock(<<Call("x")>>), Undefined)>>,
      \* if (a) { x; } else if (b) { y; }
      <<IfA(createBlock(<<Call("x")>>),
            createIfStatement(Identifier("b"), createBlock(<<Call("y")>>), Undefined))>>,
      \* if (a) x; else { y; }
      <<IfA(Call("x"), createBlock(<<Call("y")>>))>>,
      \* if (a) { if (b) { x; } } else { y; }
      <<IfA(createBlock(<<createIfStatement(Identifier("b"),
                                            createBlock(<<Call("x")>>), Undefined)>>),
            createBlock(<<Call("y")>>))>>,
      \* a ? (b ? x : y) : z;
      <<createExpressionStatement(
            createConditionalExpression(
                Identifier("a"),
                createParenthesizedExpression(
                    createConditionalExpression(Identifier("b"), Identifier("x"),
                                                Identifier("y"))),
                Identifier("z")))>>,
      \* a ? b ? x : y : z;
      <<createExpressionStatement(
            createConditionalExpression(
                Identifier("a"),
                createConditionalExpression(Identifier("b"), Identifier("x"),
                                            Identifier("y")),
                Identifier("z")))>>,
      \* function f() { return a ? x : y; }
      <<createFunctionDeclaration(
            Identifier("f"),
            createBlock(<<createReturnStatement(
                createConditionalExpression(Identifier("a"), Identifier("x"),
                                            Identifier("y")))>>))>> }

SmallDocuments == {createSourceFile(st, tr) : st \in SmallStatementLists, tr \in {0, 1}}

NoRequest == Returned("none", "undefined", <<>>)

\* a cursor inside the condition of the if/else of a function body
InitIfElse ==
    \E around \in Surroundings, c \in Conditions,
       t \in SeqsUpTo(ThenAtoms, MaxLen), e \in SeqsUpTo(ElseAtoms, MaxLen) :
        /\ source = IfElseDocument(around.prefix, c, t, e, around.suffix)
        /\ cursor = getLineAndCharacterOfPosition(
                        source, NodePos(source, IfElsePath(around.prefix) \o <<3>>) + 1)

\* a cursor on the condition of the outermost conditional expression
InitTernary ==
    \E n \in 1..MaxConds : \E e \in ConditionalsWith(n) :
        /\ source = TernaryDocument(e)
        /\ cursor = getLineAndCharacterOfPosition(source, NodePos(source, <<1, 1, 1>>) + 1)

\* every offset of a small document, the end of the text included
InitSmall ==
    \E doc \in SmallDocuments : \E offset \in 0..TextLength(doc) :
        /\ source = doc
        /\ cursor = getLineAndCharacterOfPosition(doc, offset)

Init ==
    /\ InitIfElse \/ InitTernary \/ InitSmall
    /\ result = NoRequest
    /\ inverted = <<>>

\* the editor asks the if/else provider for the actions at the cursor
ProvideIfFlipper ==
    /\ result' = IfFlipper_provideCodeActions(source, cursor)
    /\ UNCHANGED <<source, cursor, inverted>>

\* the editor asks the ternary provider for the actions at the cursor
ProvideTernaryConverter ==
    /\ result' = TernaryConverter_provideCodeActions(source, cursor)
    /\ UNCHANGED <<source, cursor, inverted>>

\* the user runs the refacta.isIfElse command
RunIsIfElse ==
    /\ result' = isThisAnIfElse(source, cursor)
    /\ UNCHANGED <<source, cursor, inverted>>

Next == ProvideIfFlipper \/ ProvideTernaryConverter \/ RunIsIfElse

Spec == Init /\ [][Next]_vars

---------------------------------------------------------------------------
(* What running statements does: the yardstick of the equivalence claims.  *)
(* Evaluating an identifier is the observable event; an environment gives  *)
(* the truth value of the identifiers used as conditions.                  *)

Envs == [{"a", "b"} -> BOOLEAN]

NoValue == [leaf |-> "undefined", neg |-> FALSE]

Truthy(v, env) == IF v.leaf \in DOMAIN env THEN env[v.leaf] # v.neg ELSE ~v.neg

\* the identifiers an expression evaluates, in order, and the value it yields:
\* the identifier it ends on, negated or not
RECURSIVE Eval(_, _)
Eval(e, env) ==
    CASE e.kind = "Identifier" ->
            [trace |-> <<e.text>>, value |-> [leaf |-> e.text, neg |-> FALSE]]
      [] e.kind = "PrefixUnaryExpression" ->
            LET v == Eval(e.operand, env)
            IN [trace |-> v.trace,
                value |-> [leaf |-> v.value.leaf, neg |-> ~v.value.neg]]
      [] e.kind = "ParenthesizedExpression" -> Eval(e.expression, env)
      [] e.kind = "ConditionalExpression" ->
            LET c == Eval(e.condition, env)
                b == Eval(IF Truthy(c.value, env) THEN e.whenTrue ELSE e.whenFalse, env)
            IN [trace |-> c.trace \o b.trace, value |-> b.value]

Skip == [trace |-> <<>>, returned |-> FALSE, value |-> NoValue]

RECURSIVE ExecStatement(_, _)
RECURSIVE ExecList(_, _)
ExecStatement(s, env) ==
    CASE s.kind = "ExpressionStatement" ->
            [trace |-> Eval(s.expression, env).trace, returned |-> FALSE,
             value |-> NoValue]
      [] s.kind = "ReturnStatement" ->
            IF IsUndefined(s.expression)
            THEN [trace |-> <<>>, returned |-> TRUE, value |-> NoValue]
            ELSE LET v == Eval(s.expression, env)
                 IN [trace |-> v.trace, returned |-> TRUE, value |-> v.value]
      [] s.kind = "Block" -> ExecList(s.statements, env)
      [] s.kind = "IfStatement" ->
            LET c == Eval(s.expression, env)
                branch == IF Truthy(c.value, env) THEN s.thenStatement
                          ELSE s.elseStatement
                r == IF IsUndefined(branch) THEN Skip ELSE ExecStatement(branch, env)
            IN [trace |-> c.trace \o r.trace, returned |-> r.returned,
                value |-> r.value]
      [] OTHER -> Skip

ExecList(statements, env) ==
    IF Len(statements) = 0 THEN Skip
    ELSE LET h == ExecStatement(Head(statements), env)
         IN IF h.returned THEN h
            ELSE LET t == ExecList(Tail(statements), env)
                 IN [trace |-> h.trace \o t.trace, returned |-> t.returned,
                     value |-> t.value]

\* a call of a function with this body: what it evaluates and what it returns
\* (running off the end returns undefined, as an empty return does)
RunBody(statements, env) ==
    LET r == ExecList(statements, env) IN [trace |-> r.trace, value |-> r.value]

---------------------------------------------------------------------------
(* The request of the current state, as the claims speak of it *)

\* the node the cursor resolves to
RequestNode == getAstNodeAtPosition(source, getSourcePositionFromVscode(cursor, source))

\* the nearest if-statement at or above the cursor's node, below the file root
RequestIfLookup == getContainingStatement(source, RequestNode, "IfStatement")
HasRequestIf == RequestIfLookup.status = "found"
RequestIfPath == RequestIfLookup.path
RequestIf == NodeAt(source, RequestIfPath)

BlockBranches(n) == n.thenStatement.kind = "Block" /\ n.elseStatement.kind = "Block"

HasDirectReturn(block) ==
    \E i \in 1..Len(block.statements) : block.statements[i].kind = "ReturnStatement"

EmptyReturn == createReturnStatement(Undefined)

IfFlipperActed == result.handler = "IfFlipper"
IfFlipperOnBlocks == IfFlipperActed /\ HasRequestIf /\ BlockBranches(RequestIf)

\* the request's if-statement is a statement of a function's body
InFunctionBody ==
    /\ Len(RequestIfPath) >= 3
    /\ NodeAt(source, Parent(RequestIfPath)).kind = "Block"
    /\ NodeAt(source, Parent(Parent(RequestIfPath))).kind = "FunctionDeclaration"

\* that body, and the body with the if-statement replaced by the nodes
OriginalBody == NodeAt(source, Parent(RequestIfPath)).statements
RewrittenBody(nodes) ==
    LET path == RequestIfPath
        body == NodeAt(source, Parent(path)).statements
        k == path[Len(path)] - 1
    IN SubSeq(body, 1, k - 1) \o nodes \o SubSeq(body, k + 1, Len(body))

\* C1: simplify on block branches yields [newIf, ...elseStatements]; newIf has
\* the original condition, no else and the then-statements in order, followed
\* by one empty return iff the then-block holds no return statement directly;
\* the else-statements follow in order, nothing added.
C1_SimplifyShape ==
    LET ifStatement == RequestIf
    IN (IfFlipperActed /\ HasRequestIf /\ BlockBranches(ifStatement)) =>
        /\ result.kind = "actions"
        /\ LET nodes == result.actions[1].nodes
               newIf == nodes[1]
               thenBlock == ifStatement.thenStatement
               elseBlock == ifStatement.elseStatement
               n == Len(thenBlock.statements)
           IN /\ result.actions[1].title = "Simplify if/else"
              /\ Len(nodes) = 1 + Len(elseBlock.statements)
              /\ SubSeq(nodes, 2, Len(nodes)) = elseBlock.statements
              /\ newIf.kind = "IfStatement"
              /\ newIf.expression = ifStatement.expression
              /\ IsUndefined(newIf.elseStatement)
              /\ newIf.thenStatement.kind = "Block"
              /\ SubSeq(newIf.thenStatement.statements, 1, n) = thenBlock.statements
              /\ IF HasDirectReturn(thenBlock)
                 THEN Len(newIf.thenStatement.statements) = n
                 ELSE /\ Len(newIf.thenStatement.statements) = n + 1
                      /\ newIf.thenStatement.statements[n + 1] = EmptyReturn

\* a then-block whose only return is nested gets the empty return; two
\* else-statements follow the guard
C1_Witness ==
    /\ IfFlipperOnBlocks
    /\ result.kind = "actions"
    /\ RequestIf.thenStatement.statements = <<Call("x"), GuardedReturn>>
    /\ Len(RequestIf.elseStatement.statements) = 2
    /\ Len(result.actions[1].nodes[1].thenStatement.statements) = 3

\* C2: replacing the if/else by the simplify nodes, anywhere in a function
\* body, leaves what the body executes unchanged for every truth assignment.
C2_SimplifyEquivalent ==
    (IfFlipperOnBlocks /\ InFunctionBody /\ result.kind = "actions") =>
        \A env \in Envs :
            RunBody(RewrittenBody(result.actions[1].nodes), env)
                = RunBody(OriginalBody, env)

C4_InvertEquivalent ==
    (IfFlipperOnBlocks /\ InFunctionBody /\ result.kind = "actions") =>
        \A env \in Envs :
            RunBody(RewrittenBody(result.actions[2].nodes), env)
                = RunBody(OriginalBody, env)

---------------------------------------------------------------------------
(* invertExpression applied again and again to one expression *)

RECURSIVE Nots(_, _)
\* e under k logical-nots
Nots(e, k) == IF k = 0 THEN e ELSE Not(Nots(e, k - 1))

InvertOperands ==
    Leaves \cup ConditionIds
    \cup {createParenthesizedExpression(e) : e \in Leaves}
    \cup ConditionalsWith(1)

InitInvert ==
    /\ \E e \in InvertOperands, k \in 0..MaxNots : inverted = <<Nots(e, k)>>
    /\ source = createSourceFile(<<>>, 0)
    /\ cursor = [line |-> 0, character |-> 0]
    /\ result = NoRequest

Invert ==
    /\ Len(inverted) <= MaxInvert
    /\ inverted' = Append(inverted, invertExpression(inverted[Len(inverted)]))
    /\ UNCHANGED <<source, cursor, result>>

NextInvert == Invert

SpecInvert == InitInvert /\ [][NextInvert]_vars

IsLogicalNot(e) == e.kind = "PrefixUnaryExpression" /\ e.operator = "!"
IsDoubleNot(e) == IsLogicalNot(e) /\ IsLogicalNot(e.operand)

\* invert(x) is the operand of a logical-not x, else a logical-not of x
InvertsOneLevel(i) ==
    inverted[i + 1] = (IF IsLogicalNot(inverted[i]) THEN inverted[i].operand
                       ELSE Not(inverted[i]))

---------------------------------------------------------------------------
(* Conditional-to-if expansion *)

\* the nearest conditional expression at or above the cursor's node
RequestConditionalLookup ==
    getContainingStatement(source, RequestNode, "ConditionalExpression")
RequestConditional == NodeAt(source, RequestConditionalLookup.path)

TernaryExpanded == result.handler = "TernaryConverter" /\ result.kind = "actions"

RECURSIVE NestedConditionals(_)
\* the conditional expressions of e reached through when-true and when-false
\* branches, outermost first
NestedConditionals(e) ==
    IF e.kind # "ConditionalExpression" THEN <<>>
    ELSE <<e>> \o NestedConditionals(e.whenTrue) \o NestedConditionals(e.whenFalse)

RECURSIVE LeafExpressions(_)
\* the branches of those that are no conditional expressions, left to right
LeafExpressions(e) ==
    IF e.kind # "ConditionalExpression" THEN <<e>>
    ELSE LeafExpressions(e.whenTrue) \o LeafExpressions(e.whenFalse)

RECURSIVE IfsOf(_)
RECURSIVE IfsOfList(_)
\* the if-statements within a statement, outermost first
IfsOf(s) ==
    CASE s.kind = "IfStatement" ->
            <<s>> \o IfsOf(s.thenStatement) \o IfsOf(s.elseStatement)
      [] s.kind = "Block" -> IfsOfList(s.statements)
      [] OTHER -> <<>>

IfsOfList(statements) ==
    IF Len(statements) = 0 THEN <<>>
    ELSE IfsOf(Head(statements)) \o IfsOfList(Tail(statements))

RECURSIVE ReturnsOf(_)
RECURSIVE ReturnsOfList(_)
\* the return statements within a statement, in text order
ReturnsOf(s) ==
    CASE s.kind = "ReturnStatement" -> <<s>>
      [] s.kind = "IfStatement" -> ReturnsOf(s.thenStatement) \o ReturnsOf(s.elseStatement)
      [] s.kind = "Block" -> ReturnsOfList(s.statements)
      [] OTHER -> <<>>

ReturnsOfList(statements) ==
    IF Len(statements) = 0 THEN <<>>
    ELSE ReturnsOf(Head(statements)) \o ReturnsOfList(Tail(statements))

\* a block of exactly one statement, a nested if or a return
OneIfOrReturn(b) ==
    /\ b.kind = "Block"
    /\ Len(b.statements) = 1
    /\ b.statements[1].kind \in {"IfStatement", "ReturnStatement"}

\* C6: the expansion of a conditional expression with n conditionals nested
\* through its branches is one statement holding exactly n if-statements, each
\* with a then- and an else-block of one statement (an if or a return) and the
\* condition of its conditional expression; the n + 1 returns wrap the leaf
\* expressions verbatim, in order.
C6_ExpansionShape ==
    TernaryExpanded =>
        LET nodes == result.actions[1].nodes
            old == RequestConditional
            conditionals == NestedConditionals(old)
            leaves == LeafExpressions(old)
            ifs == IfsOfList(nodes)
            returns == ReturnsOfList(nodes)
        IN /\ Len(nodes) = 1
           /\ nodes[1].kind = "IfStatement"
           /\ Len(ifs) = Len(conditionals)
           /\ \A i \in 1..Len(ifs) :
                /\ ifs[i].expression = conditionals[i].condition
                /\ OneIfOrReturn(ifs[i].thenStatement)
                /\ OneIfOrReturn(ifs[i].elseStatement)
           /\ Len(returns) = Len(ifs) + 1
           /\ Len(returns) = Len(leaves)
           /\ \A j \in 1..Len(returns) : returns[j] = createReturnStatement(leaves[j])

\* a conditional nested in the when-false branch of another: two ifs
C6_Witness ==
    /\ TernaryExpanded
    /\ RequestConditional.whenFalse.kind = "ConditionalExpression"
    /\ Len(NestedConditionals(RequestConditional)) = 2
    /\ Len(IfsOfList(result.actions[1].nodes)) = 2

\* a ? (b ? x : y) : z
ParenthesizedExample ==
    createConditionalExpression(
        Identifier("a"),
        createParenthesizedExpression(
            createConditionalExpression(Identifier("b"), Identifier("x"),
                                        Identifier("y"))),
        Identifier("z"))

\* C7: a ? (b ? x : y) : z expands to
\* if (a) { if (b) { return x; } else { return y; } } else { return z; }
C7_ParenthesizedExpanded ==
    (TernaryExpanded /\ RequestConditional = ParenthesizedExample) =>
        result.actions[1].newText =
            <<"if", "(", "a", ")", "{",
                  "if", "(", "b", ")", "{", "return", "x", ";", "}",
                  "else", "{", "return", "y", ";", "}",
              "}", "else", "{", "return", "z", ";", "}">>

\* C8: for every truth assignment, running the expansion evaluates what
\* evaluating the conditional expression evaluates, in the same order, and
\* returns the leaf the expression yields.
C8_ExpansionEquivalent ==
    TernaryExpanded =>
        LET old == RequestConditional
        IN \A env \in Envs :
            LET ran == ExecList(result.actions[1].nodes, env)
                value == Eval(old, env)
            IN /\ ran.returned
               /\ ran.trace = value.trace
               /\ ran.value = value.value

\* two nested conditionals, and an assignment under which both conditions
\* are evaluated and a leaf of the inner one is returned
C8_Witness ==
    /\ TernaryExpanded
    /\ Len(NestedConditionals(RequestConditional)) = 2
    /\ \E env \in Envs :
            /\ Len(Eval(RequestConditional, env).trace) = 3
            /\ ExecList(result.actions[1].nodes, env).value.leaf \in {"x", "y"}

---------------------------------------------------------------------------
(* Requests that apply to nothing *)

\* the cursor's node or one of its ancestors below the file root is of kind
InsideKind(kind) ==
    \E k \in 1..Len(RequestNode) : NodeAt(source, SubSeq(RequestNode, 1, k)).kind = kind

\* C9: when the nearest enclosing if-statement has a branch that is no block
\* (an else-if chain, an unbraced then-statement), the if/else provider
\* returns no actions and does not fail.
C9_NonBlockBranchYieldsNothing ==
    (/\ IfFlipperActed
     /\ HasRequestIf
     /\ \/ RequestIf.thenStatement.kind # "Block"
        \/ RequestIf.elseStatement.kind \notin {"Block", "undefined"})
        => result.kind = "undefined"

\* C10: at every cursor offset, the end of the text included, a provider
\* whose construct does not enclose the cursor returns nothing and raises no
\* error.
C10_NothingOutsideConstruct ==
    /\ (IfFlipperActed /\ ~InsideKind("IfStatement")) => result.kind = "undefined"
    /\ (result.handler = "TernaryConverter" /\ ~InsideKind("ConditionalExpression"))
            => result.kind = "undefined"

---------------------------------------------------------------------------
(* The range an edit replaces *)

\* node.getStart(): where the node's first token begins, past its trivia
FirstCharacter(src, path) == NodePos(src, path) + src.trivia

\* the range from the first character of a node to the end of its last
ExactRange(src, path) ==
    [start |-> getLineAndCharacterOfPosition(src, FirstCharacter(src, path)),
     end |-> getLineAndCharacterOfPosition(src, NodeEnd(src, path))]

\* C11: the range an edit replaces runs from the first character of the
\* matched if-statement (or conditional expression) to its last, with no
\* whitespace or line break in front of it and nothing of a neighbouring
\* statement; simplify and invert-and-simplify replace the same range.
C11_RangeIsExact ==
    /\ (IfFlipperActed /\ result.kind = "actions") =>
          /\ result.actions[1].range = ExactRange(source, RequestIfPath)
          /\ result.actions[2].range = result.actions[1].range
    /\ TernaryExpanded =>
          result.actions[1].range = ExactRange(source, RequestConditionalLookup.path)

---------------------------------------------------------------------------
(* The "is an if/else" check *)

IsIfElseAnswered == result.handler = "isIfElse" /\ result.kind \in {"yes", "no"}

\* C12 as stated: the check says yes exactly when the else-branch of the
\* if-statement is present and is a block, whatever the then-branch is.
C12_YesIffElseIsBlock ==
    IsIfElseAnswered =>
        (result.kind = "yes" <=> RequestIf.elseStatement.kind = "Block")

\* C12 amended: the check says yes exactly when the then-branch and the
\* else-branch of the if-statement are both blocks.
C12_YesIffBothBranchesAreBlocks ==
    IsIfElseAnswered =>
        LET ifStatement == RequestIf
        IN result.kind = "yes" <=>
              /\ ifStatement.thenStatement.kind = "Block"
              /\ ifStatement.elseStatement.kind = "Block"

\* if (a) x; else { y; }: a block for else, none for then, and the answer no
C12_Witness ==
    /\ IsIfElseAnswered
    /\ RequestIf.elseStatement.kind = "Block"
    /\ RequestIf.thenStatement.kind = "ExpressionStatement"
    /\ result.kind = "no"

---------------------------------------------------------------------------
(* The node at the cursor *)

RECURSIVE Depth(_)
RECURSIVE DepthOfItems(_)

\* the number of levels below n
Depth(n) ==
    IF Len(Template(n)) = 0 THEN 0 ELSE 1 + DepthOfItems(Template(n))

DepthOfItems(items) ==
    IF Len(items) = 0 THEN 0
    ELSE LET head == Depth(Head(items))
             tail == DepthOfItems(Tail(items))
         IN IF head >= tail THEN head ELSE tail

Requested == result.handler # "none"

RequestOffset == getSourcePositionFromVscode(cursor, source)

\* the children forEachChild hands to the callback
VisitedChildren(n) == {i \in 1..Len(Template(n)) : Template(n)[i].kind # "Punctuation"}

\* C13: the node resolved for an offset within the text has no direct child
\* whose span [start, end) holds the offset; it is the file root or its own
\* span [start, end) holds the offset; it lies at most tree-depth levels below
\* the root.
C13_ResolvesDeepestSpan ==
    Requested =>
        LET pos == RequestOffset
            path == RequestNode
            node == NodeAt(source, path)
        IN /\ \A i \in VisitedChildren(node) :
                  ~ (/\ NodePos(source, Append(path, i)) <= pos
                     /\ pos < NodeEnd(source, Append(path, i)))
           /\ \/ Len(path) = 0
              \/ NodePos(source, path) <= pos /\ pos < NodeEnd(source, path)
           /\ Len(path) <= Depth(source)

\* the offset is where a nested node starts and its previous sibling ends
C13_Witness ==
    /\ Requested
    /\ LET path == RequestNode
       IN /\ Len(path) >= 3
          /\ path[Len(path)] > 1
          /\ NodePos(source, path) = RequestOffset
          /\ NodeEnd(source, Append(Parent(path), path[Len(path)] - 1)) = RequestOffset

---------------------------------------------------------------------------
(* The nearest enclosing construct *)

\* the start node and its ancestors below the file root
StartAndAncestors(path) == {path} \cup {SubSeq(path, 1, k) : k \in 1..Len(path)}

\* the innermost of them that is of kind, or not found when there is none
InnermostOfKind(path, kind) ==
    LET matching == {p \in StartAndAncestors(path) : NodeAt(source, p).kind = kind}
    IN IF matching = {} THEN NotFound
       ELSE Found(CHOOSE p \in matching : \A q \in matching : Len(q) <= Len(p))

\* an if-statement strictly above path that has an else-branch
HasOuterIfElse(path) ==
    \E k \in 1..(Len(path) - 1) :
        LET outer == NodeAt(source, SubSeq(path, 1, k))
        IN ts_isIfStatement(outer) /\ ~IsUndefined(outer.elseStatement)

\* C14: the search from the cursor's node returns the innermost node of the
\* wanted kind among that node and its ancestors below the file root, and
\* not-found exactly when there is none.  So a cursor in an if without else
\* nested in an outer if/else gets no action from the if/else provider, and
\* the conditional expansion replaces the innermost conditional expression
\* around the cursor.
C14_FindsInnermostEnclosing ==
    Requested =>
        LET path == RequestNode
            innermostIf == InnermostOfKind(path, "IfStatement")
            innermostConditional == InnermostOfKind(path, "ConditionalExpression")
        IN /\ getContainingStatement(source, path, "IfStatement") = innermostIf
           /\ getContainingStatement(source, path, "ConditionalExpression")
                 = innermostConditional
           /\ (/\ IfFlipperActed
               /\ innermostIf.status = "found"
               /\ IsUndefined(NodeAt(source, innermostIf.path).elseStatement)
               /\ HasOuterIfElse(innermostIf.path))
                 => result.kind = "undefined"
           /\ TernaryExpanded =>
                 /\ innermostConditional.status = "found"
                 /\ result.actions[1].range
                       = getVscodeRangeOfNode(source, innermostConditional.path)

=============================================================================
